---- MODULE Spec2Model ----
(***************************************************************************)
(* Model of the Spatial-Grimoire scripts:                                  *)
(*   ArcPy_IngestREST.py    - chunked REST extraction, staging, merge      *)
(*   WebGISDR-cli-wrapper.py - backup pruning before a WebGISDR export     *)
(***************************************************************************)
EXTENDS Integers, Sequences, FiniteSets, TLC

\* ------------------------------------------------------------------ bounds
MaxID == 3
MaxPage == 3
MaxRetries == 2
MaxChunks == 40
MaxStamp == 2
MaxFiles == 4

\* ------------------------------------------------------- program constants
query_request_standard_pause == 10
sleep_timer_start == 30
zfill_width == 6
server_default_limit == 250000
record_extraction_default == 30000
min_copies == 1
max_copies == 7

\* Python's None, the fill value of itertools.zip_longest
None == -1

IDs == 0..MaxID
PageSizes == 1..MaxPage

VARIABLES
    pc,                  \* position of the ingest script
    record_extraction_hardcode, \* effective page size handed to IterableChunk
    out_json_folder,     \* the Payload Store: set of [name, content] files
    gdb,                 \* intermediate geodatabase: [exists, fcs]
    dest,                \* destination feature class: [exists, gen, rows, full]
    dest0,               \* the destination as it was before the run
    objectID_Manifest,   \* sorted identifier manifest
    objectID_Groups,     \* list(IterableChunk(...))
    total_iterations,    \* chunk count reported by IterableChunk
    group_index,         \* position of the for loop over objectID_Groups
    json_file_iterator,  \* module global naming the staged payloads
    response_flag,       \* module global soft-failure flag
    response,            \* last response of session.get
    sleep_timer,         \* local backoff timer of QueryExtractionRequest
    trace,               \* get / sleep / write calls for the current chunk
    persisted,           \* names written by this run, in extraction order
    converted,           \* names handed to JSONToFeatures, in call order
    list_fc,             \* list_fc of ReplaceFinal...
    wpc,                 \* position of the WebGISDR wrapper
    backup_arguments,    \* argparse.Namespace: [mode, copies]
    backups_dir,         \* file names in WebGISDR_backups_path
    backups_before,      \* the directory as prune_copies found it
    properties_mode      \* BACKUP_RESTORE_MODE line of webgisdr.properties

ingest_vars == <<pc, record_extraction_hardcode, out_json_folder, gdb, dest,
                 dest0, objectID_Manifest, objectID_Groups, total_iterations,
                 group_index, json_file_iterator, response_flag, response,
                 sleep_timer, trace, persisted, converted, list_fc>>

wrapper_vars == <<wpc, backup_arguments, backups_dir, backups_before,
                  properties_mode>>

vars == <<ingest_vars, wrapper_vars>>

\* ----------------------------------------------------------------- helpers
Min(a, b) == IF a < b THEN a ELSE b

RECURSIVE Pow2(_)
Pow2(n) == IF n = 0 THEN 1 ELSE 2 * Pow2(n - 1)

SetMin(S) == CHOOSE x \in S : \A y \in S : x <= y

\* sorted(...) of a collection of distinct integers
RECURSIVE sorted(_)
sorted(S) == IF S = {} THEN <<>>
             ELSE <<SetMin(S)>> \o sorted(S \ {SetMin(S)})

\* str(n): decimal digits of a natural number
RECURSIVE str(_)
str(n) == IF n < 10 THEN <<n>> ELSE Append(str(n \div 10), n % 10)

\* s.zfill(w): pad on the left with zeros up to width w, never truncate
RECURSIVE zfill(_, _)
zfill(s, w) == IF Len(s) >= w THEN s ELSE zfill(<<0>> \o s, w)

\* Python string comparison a < b on digit strings
RECURSIVE LexLess(_, _)
LexLess(a, b) ==
    IF b = <<>> THEN FALSE
    ELSE IF a = <<>> THEN TRUE
    ELSE IF Head(a) # Head(b) THEN Head(a) < Head(b)
    ELSE LexLess(Tail(a), Tail(b))

\* all orderings of a finite set (os.listdir / ListFeatureClasses order)
Perms(S) == { s \in [1..Cardinality(S) -> S] :
                \A i, j \in 1..Cardinality(S) : i # j => s[i] # s[j] }

\* ----------------------------------------------------------- IterableChunk
\* one tuple of itertools.zip_longest(*[iter(m)] * p): the next p items of
\* the shared iterator, padded with None once it is exhausted
ZipTuple(m, p) == [i \in 1..p |-> IF i <= Len(m) THEN m[i] ELSE None]

\* mutant: a stride walk that runs one stride past an exact multiple
RECURSIVE zip_longest_trailing(_, _)
zip_longest_trailing(m, p) ==
    IF Len(m) < p THEN <<ZipTuple(m, p)>>
    ELSE <<ZipTuple(m, p)>> \o zip_longest_trailing(SubSeq(m, p + 1, Len(m)), p)

RECURSIVE zip_longest(_, _)
zip_longest(m, p) ==
    IF m = <<>> THEN <<>>
    ELSE <<ZipTuple(m, p)>> \o
         zip_longest(SubSeq(m, Min(p, Len(m)) + 1, Len(m)), p)

\* mutant: "if item" in place of "if item != None" drops identifier 0
KeepItem_truthy(item) == item # None /\ item # 0

KeepItem(item) == item # None

StripNone(chunk) == SelectSeq(chunk, KeepItem)

IterableChunk(ServiceRequestMAX, ObjectIDManifest) ==
    LET zl == zip_longest(ObjectIDManifest, ServiceRequestMAX)
    IN  [i \in 1..Len(zl) |-> StripNone(zl[i])]

TotalIterations(ServiceRequestMAX, ObjectIDManifest) ==
    LET final_iterator ==
            IF (Len(ObjectIDManifest) % ServiceRequestMAX) > 0 THEN 1 ELSE 0
    IN  (Len(ObjectIDManifest) \div ServiceRequestMAX) + final_iterator

\* ------------------------------------------------------------ state shapes
NoResponse == [ok |-> TRUE, err |-> FALSE, query |-> <<None, None>>]

\* a payload staged by an earlier run over another manifest
StaleContent == [ok |-> TRUE, err |-> FALSE, query |-> <<100, 200>>]

File(n, c) == [name |-> n, content |-> c]

StaleFiles == { File(zfill(str(1), zfill_width), StaleContent),
                File(zfill(str(9), zfill_width), StaleContent) }

NoGDB == [exists |-> FALSE, fcs |-> {}]
StaleGDB == [exists |-> TRUE, fcs |-> {zfill(str(9), zfill_width)}]

Absent == [exists |-> FALSE, gen |-> "none", rows |-> {}, full |-> FALSE]
OldDest == [exists |-> TRUE, gen |-> "old", rows |-> {}, full |-> TRUE]
NewDest(r, f) == [exists |-> TRUE, gen |-> "new", rows |-> r, full |-> f]

EvGet(r) == [op |-> "get", secs |-> 0, query |-> r.query,
             ok |-> r.ok, err |-> r.err, name |-> <<>>]
EvSleep(kind, s) == [op |-> kind, secs |-> s, query |-> <<None, None>>,
                     ok |-> TRUE, err |-> FALSE, name |-> <<>>]
EvWrite(n) == [op |-> "write", secs |-> 0, query |-> <<None, None>>,
               ok |-> TRUE, err |-> FALSE, name |-> n]

Names(folder) == { f.name : f \in folder }

Range(s) == { s[i] : i \in 1..Len(s) }

CountOp(t, o) == Cardinality({ i \in 1..Len(t) : t[i].op = o })

\* the wrapper is a separate script; it is not running during an ingest
WrapperIdle ==
    /\ wpc = "idle"
    /\ backup_arguments = [mode |-> "FULL", copies |-> 1]
    /\ backups_dir = {}
    /\ backups_before = {}
    /\ properties_mode = "none"

\* -------------------------------------------------------------------- Init
Init ==
    /\ pc = "clean"
    /\ record_extraction_hardcode \in PageSizes
    /\ out_json_folder \in SUBSET StaleFiles
    /\ gdb \in {NoGDB, StaleGDB}
    /\ dest0 \in {Absent, OldDest}
    /\ dest = dest0
    /\ objectID_Manifest = <<>>
    /\ objectID_Groups = <<>>
    /\ total_iterations = 0
    /\ group_index = 0
    /\ json_file_iterator = 0
    /\ response_flag = TRUE
    /\ response = NoResponse
    /\ sleep_timer = 0
    /\ trace = <<>>
    /\ persisted = <<>>
    /\ converted = <<>>
    /\ list_fc = <<>>
    /\ WrapperIdle

\* ------------------------------------------------------------ ingest steps
\* mutant: the loop removes nothing
RemoveAll_none(folder) == folder

\* lines 105-106: os.remove of every entry os.listdir returns
RemoveAll(folder) == folder \ { f \in folder : f.name \in Names(folder) }

\* line 133: every entry of the staging folder is removed
CleanUpJSONsFolder ==
    /\ pc = "clean"
    /\ out_json_folder' = RemoveAll(out_json_folder)
    /\ pc' = "meta"
    /\ UNCHANGED <<record_extraction_hardcode, gdb, dest, dest0,
                   objectID_Manifest, objectID_Groups, total_iterations,
                   group_index, json_file_iterator, response_flag, response,
                   sleep_timer, trace, persisted, converted, list_fc>>
    /\ UNCHANGED wrapper_vars

\* line 134: the advertised limit is fetched; its value is never used
\* (line 138 passes record_extraction_hardcode); a malformed reply raises
ServiceGetRecordExtract ==
    /\ pc = "meta"
    /\ pc' \in {"ids", "crash_resolve"}
    /\ UNCHANGED <<record_extraction_hardcode, out_json_folder, gdb, dest,
                   dest0, objectID_Manifest, objectID_Groups,
                   total_iterations, group_index, json_file_iterator,
                   response_flag, response, sleep_timer, trace, persisted,
                   converted, list_fc>>
    /\ UNCHANGED wrapper_vars

\* line 135: the server's identifiers, sorted
ServiceGetObjectIDs ==
    /\ pc = "ids"
    /\ \/ /\ \E S \in SUBSET IDs : objectID_Manifest' = sorted(S)
          /\ pc' = "plan"
       \/ /\ pc' = "crash_resolve"
          /\ UNCHANGED objectID_Manifest
    /\ UNCHANGED <<record_extraction_hardcode, out_json_folder, gdb, dest,
                   dest0, objectID_Groups, total_iterations, group_index,
                   json_file_iterator, response_flag, response, sleep_timer,
                   trace, persisted, converted, list_fc>>
    /\ UNCHANGED wrapper_vars

\* line 138: objectID_Groups = list(IterableChunk(...))
PlanChunks ==
    /\ pc = "plan"
    /\ objectID_Groups' =
           IterableChunk(record_extraction_hardcode, objectID_Manifest)
    /\ total_iterations' =
           TotalIterations(record_extraction_hardcode, objectID_Manifest)
    /\ group_index' = 1
    /\ pc' = "loop"
    /\ UNCHANGED <<record_extraction_hardcode, out_json_folder, gdb, dest,
                   dest0, objectID_Manifest, json_file_iterator,
                   response_flag, response, sleep_timer, trace, persisted,
                   converted, list_fc>>
    /\ UNCHANGED wrapper_vars

\* the loop condition of line 87
\* mutant: only the HTTP status is tested, the flag is ignored
MustRetry_status(resp, flag) == ~resp.ok

MustRetry(resp, flag) == (~resp.ok) \/ (flag = FALSE)

\* lines 140-145 and 78-86: next group, first request, classification,
\* standard pause, sleep_timer = 30; session.get may also raise
QueryExtractionRequest_first ==
    /\ pc = "loop"
    /\ group_index <= Len(objectID_Groups)
    /\ LET objectID_group == objectID_Groups[group_index]
           objectID_MIN == objectID_group[1]
           objectID_MAX == objectID_group[Len(objectID_group)]
       IN  /\ json_file_iterator' = json_file_iterator + Len(objectID_group)
           /\ \/ \E ok \in BOOLEAN, err \in BOOLEAN :
                   LET r == [ok |-> ok, err |-> err,
                             query |-> <<objectID_MIN, objectID_MAX>>]
                   IN  /\ response' = r
                       /\ response_flag' = IF err THEN FALSE ELSE response_flag
                       /\ trace' = <<EvGet(r),
                                     EvSleep("pause", query_request_standard_pause)>>
                       /\ sleep_timer' = sleep_timer_start
                       /\ pc' = "query"
              \/ /\ pc' = "crash_get"
                 /\ trace' = <<>>
                 /\ UNCHANGED <<response, response_flag, sleep_timer>>
    /\ UNCHANGED <<record_extraction_hardcode, out_json_folder, gdb, dest,
                   dest0, objectID_Manifest, objectID_Groups,
                   total_iterations, group_index, persisted, converted,
                   list_fc>>
    /\ UNCHANGED wrapper_vars

\* mutant: linear backoff, the start value added on every failure
NextSleepTimer_linear(timer) == timer + sleep_timer_start

\* line 88: sleep_timer = sleep_timer * 2
NextSleepTimer(timer) == timer * 2

\* lines 87-98: one iteration of the retry loop
QueryExtractionRequest_retry ==
    /\ pc = "query"
    /\ MustRetry(response, response_flag)
    /\ CountOp(trace, "backoff") < MaxRetries
    /\ sleep_timer' = NextSleepTimer(sleep_timer)
    /\ \/ \E ok \in BOOLEAN, err \in BOOLEAN :
            LET r == [ok |-> ok, err |-> err, query |-> response.query]
            IN  /\ response' = r
                /\ response_flag' = IF err THEN FALSE ELSE TRUE
                /\ trace' = trace \o <<EvSleep("backoff", sleep_timer'), EvGet(r)>>
                /\ pc' = "query"
       \/ /\ pc' = "crash_get"
          /\ trace' = Append(trace, EvSleep("backoff", sleep_timer'))
          /\ UNCHANGED <<response, response_flag>>
    /\ UNCHANGED <<record_extraction_hardcode, out_json_folder, gdb, dest,
                   dest0, objectID_Manifest, objectID_Groups,
                   total_iterations, group_index, json_file_iterator,
                   persisted, converted, list_fc>>
    /\ UNCHANGED wrapper_vars

\* the staged file name of line 99
PayloadName(iterator) == zfill(str(iterator), zfill_width)

\* lines 99-100: the loop has ended, the body is written (mode "wb"); the
\* locals response and sleep_timer end with the call
QueryExtractionRequest_persist ==
    /\ pc = "query"
    /\ ~MustRetry(response, response_flag)
    /\ LET n == PayloadName(json_file_iterator)
       IN  /\ out_json_folder' =
                  { f \in out_json_folder : f.name # n } \cup {File(n, response)}
           /\ trace' = Append(trace, EvWrite(n))
           /\ persisted' = Append(persisted, n)
    /\ response' = NoResponse
    /\ sleep_timer' = 0
    /\ group_index' = group_index + 1
    /\ pc' = "loop"
    /\ UNCHANGED <<record_extraction_hardcode, gdb, dest, dest0,
                   objectID_Manifest, objectID_Groups, total_iterations,
                   json_file_iterator, response_flag, converted, list_fc>>
    /\ UNCHANGED wrapper_vars

\* --------------------------------------------------------------- merge stage
\* mutant: a conversion error is swallowed and the run goes on
AfterConvert_swallow(fail) == "replace"

\* line 121 raising ends the script before line 148 is reached
AfterConvert(fail) == IF fail = 0 THEN "replace" ELSE "crash_convert"

\* line 147, lines 108-121: the intermediate geodatabase is recreated, then
\* each entry of os.listdir (arbitrary order) is converted; JSONToFeatures
\* raises on the fail-th file (0: no failure); no chunk is current any more
ConvertJSONstoFeatureClasses ==
    /\ pc = "loop"
    /\ group_index > Len(objectID_Groups)
    /\ \E order \in Perms(Names(out_json_folder)) :
       \E fail \in 0..Len(order) :
          /\ converted' = IF fail = 0 THEN order ELSE SubSeq(order, 1, fail)
          /\ gdb' = [exists |-> TRUE,
                     fcs |-> IF fail = 0 THEN Range(order)
                             ELSE Range(SubSeq(order, 1, fail - 1))]
          /\ pc' = AfterConvert(fail)
    /\ trace' = <<>>
    /\ UNCHANGED <<record_extraction_hardcode, out_json_folder, dest, dest0,
                   objectID_Manifest, objectID_Groups, total_iterations,
                   group_index, json_file_iterator, response_flag, response,
                   sleep_timer, persisted, list_fc>>
    /\ UNCHANGED wrapper_vars

\* lines 125-126: the destination of the previous run is deleted first
ReplaceFinal_delete ==
    /\ pc = "replace"
    /\ \/ /\ dest' = IF dest.exists THEN Absent ELSE dest
          /\ pc' = "replace_list"
       \/ /\ dest.exists
          /\ pc' = "crash_replace"
          /\ UNCHANGED dest
    /\ UNCHANGED <<record_extraction_hardcode, out_json_folder, gdb, dest0,
                   objectID_Manifest, objectID_Groups, total_iterations,
                   group_index, json_file_iterator, response_flag, response,
                   sleep_timer, trace, persisted, converted, list_fc>>
    /\ UNCHANGED wrapper_vars

\* lines 127-128: list_fc[0] of an empty workspace raises IndexError
ReplaceFinal_list ==
    /\ pc = "replace_list"
    /\ \/ /\ gdb.fcs # {}
          /\ list_fc' \in Perms(gdb.fcs)
          /\ pc' = "replace_create"
       \/ /\ gdb.fcs = {}
          /\ list_fc' = <<>>
          /\ pc' = "crash_replace"
    /\ UNCHANGED <<record_extraction_hardcode, out_json_folder, gdb, dest,
                   dest0, objectID_Manifest, objectID_Groups,
                   total_iterations, group_index, json_file_iterator,
                   response_flag, response, sleep_timer, trace, persisted,
                   converted>>
    /\ UNCHANGED wrapper_vars

\* line 129: an empty feature class is created from the first chunk
ReplaceFinal_create ==
    /\ pc = "replace_create"
    /\ \/ /\ dest' = NewDest({}, FALSE)
          /\ pc' = "replace_append"
       \/ /\ pc' = "crash_replace"
          /\ UNCHANGED dest
    /\ UNCHANGED <<record_extraction_hardcode, out_json_folder, gdb, dest0,
                   objectID_Manifest, objectID_Groups, total_iterations,
                   group_index, json_file_iterator, response_flag, response,
                   sleep_timer, trace, persisted, converted, list_fc>>
    /\ UNCHANGED wrapper_vars

\* line 130: Append of every intermediate feature class; a failure leaves
\* the rows of the inputs appended so far
ReplaceFinal_append ==
    /\ pc = "replace_append"
    /\ \/ /\ dest' = NewDest(Range(list_fc), TRUE)
          /\ pc' = "done"
       \/ /\ \E k \in 0..(Len(list_fc) - 1) :
                dest' = NewDest(Range(SubSeq(list_fc, 1, k)), FALSE)
          /\ pc' = "crash_replace"
    /\ UNCHANGED <<record_extraction_hardcode, out_json_folder, gdb, dest0,
                   objectID_Manifest, objectID_Groups, total_iterations,
                   group_index, json_file_iterator, response_flag, response,
                   sleep_timer, trace, persisted, converted, list_fc>>
    /\ UNCHANGED wrapper_vars

Next ==
    \/ CleanUpJSONsFolder
    \/ ServiceGetRecordExtract
    \/ ServiceGetObjectIDs
    \/ PlanChunks
    \/ QueryExtractionRequest_first
    \/ QueryExtractionRequest_retry
    \/ QueryExtractionRequest_persist
    \/ ConvertJSONstoFeatureClasses
    \/ ReplaceFinal_delete
    \/ ReplaceFinal_list
    \/ ReplaceFinal_create
    \/ ReplaceFinal_append

Spec == Init /\ [][Next]_vars

\* ---------------------------------------------- naming of large extractions
\* The extraction loop (lines 140-145, 99) reduced to what names the staged
\* payloads, for manifests of total_iterations full chunks: every group then
\* has len(objectID_group) = page size, so the groups need not be held.
IngestIdle ==
    /\ pc = "idle"
    /\ record_extraction_hardcode = record_extraction_default
    /\ out_json_folder = {}
    /\ gdb = NoGDB
    /\ dest0 = Absent
    /\ dest = Absent
    /\ objectID_Manifest = <<>>
    /\ objectID_Groups = <<>>
    /\ total_iterations = 0
    /\ group_index = 0
    /\ json_file_iterator = 0
    /\ response_flag = TRUE
    /\ response = NoResponse
    /\ sleep_timer = 0
    /\ trace = <<>>
    /\ persisted = <<>>
    /\ converted = <<>>
    /\ list_fc = <<>>

InitNames ==
    /\ pc = "loop"
    /\ record_extraction_hardcode \in
           {record_extraction_default, server_default_limit}
    /\ total_iterations \in 1..MaxChunks
    /\ group_index = 1
    /\ json_file_iterator = 0
    /\ persisted = <<>>
    /\ out_json_folder = {}
    /\ gdb = NoGDB
    /\ dest0 = Absent
    /\ dest = Absent
    /\ objectID_Manifest = <<>>
    /\ objectID_Groups = <<>>
    /\ response_flag = TRUE
    /\ response = NoResponse
    /\ sleep_timer = 0
    /\ trace = <<>>
    /\ converted = <<>>
    /\ list_fc = <<>>
    /\ WrapperIdle

\* lines 143 and 99 for the next full chunk
NameNextChunk ==
    /\ pc = "loop"
    /\ group_index <= total_iterations
    /\ json_file_iterator' = json_file_iterator + record_extraction_hardcode
    /\ persisted' = Append(persisted, PayloadName(json_file_iterator'))
    /\ group_index' = group_index + 1
    /\ UNCHANGED <<pc, record_extraction_hardcode, out_json_folder, gdb, dest,
                   dest0, objectID_Manifest, objectID_Groups,
                   total_iterations, response_flag, response, sleep_timer,
                   trace, converted, list_fc>>
    /\ UNCHANGED wrapper_vars

NextNames == NameNextChunk

SpecNames == InitNames /\ [][NextNames]_vars

\* ------------------------------------------------------- WebGISDR wrapper
\* File names are strings over a small alphabet, in code point order:
\* 1..MaxStamp name characters, then the mode words, then the extensions.
ModeChar(mode) == CASE mode = "BACKUP" -> MaxStamp + 1
                    [] mode = "FULL" -> MaxStamp + 2
                    [] mode = "INCREMENTAL" -> MaxStamp + 3
ExtWebgissite == MaxStamp + 4
ExtOther == MaxStamp + 5

Modes == {"FULL", "INCREMENTAL", "BACKUP"}
Copies == min_copies..max_copies

StampChars == 1..MaxStamp
Stamps == { <<c>> : c \in StampChars } \cup { <<1, c>> : c \in StampChars }

BackupName(stamp, mode) == stamp \o <<ModeChar(mode), ExtWebgissite>>

AllFileNames ==
    { BackupName(st, m) : st \in Stamps, m \in Modes }
        \cup { <<1, ModeChar("FULL"), ExtOther>> }

EndsWith(name, suffix) ==
    /\ Len(name) >= Len(suffix)
    /\ SubSeq(name, Len(name) - Len(suffix) + 1, Len(name)) = suffix

\* line 22: glob(f"*{mode}.webgissite")
Glob(dir, mode) ==
    { f \in dir : EndsWith(f, <<ModeChar(mode), ExtWebgissite>>) }

SetMax(S) == CHOOSE x \in S : \A y \in S : y = x \/ LexLess(y, x)

\* mutant: the reverse flag is lost, the sort is ascending
RECURSIVE SortReverse_ascending(_)
SortReverse_ascending(S) ==
    IF S = {} THEN <<>>
    ELSE LET lo == CHOOSE x \in S : \A y \in S : y = x \/ LexLess(x, y)
         IN  <<lo>> \o SortReverse_ascending(S \ {lo})

\* line 24: sort(reverse=True)
RECURSIVE SortReverse(_)
SortReverse(S) ==
    IF S = {} THEN <<>>
    ELSE <<SetMax(S)>> \o SortReverse(S \ {SetMax(S)})

\* lines 25-27
BackupsRetained(dir, args) ==
    LET file_names == SortReverse(Glob(dir, args.mode))
    IN  SubSeq(file_names, 1, Min(args.copies, Len(file_names)))

BackupsPruned(dir, args) ==
    LET file_names == SortReverse(Glob(dir, args.mode))
        retained == Range(BackupsRetained(dir, args))
        NotRetained(item) == item \notin retained
    IN  SelectSeq(file_names, NotRetained)

InitWrapper ==
    /\ wpc = "prune"
    /\ backup_arguments \in [mode : Modes, copies : Copies]
    /\ backups_dir \in { d \in SUBSET AllFileNames : Cardinality(d) <= MaxFiles }
    /\ backups_before = backups_dir
    /\ properties_mode \in Modes \cup {"none"}
    /\ IngestIdle

\* lines 13-31, called at line 105
prune_copies ==
    /\ wpc = "prune"
    /\ backups_before' = backups_dir
    /\ backups_dir' = backups_dir \ Range(BackupsPruned(backups_dir, backup_arguments))
    /\ wpc' = "set"
    /\ UNCHANGED <<backup_arguments, properties_mode>>
    /\ UNCHANGED ingest_vars

\* lines 34-52: the BACKUP_RESTORE_MODE line, when present, is rewritten
set_WebGISDR ==
    /\ wpc = "set"
    /\ properties_mode' = IF properties_mode = "none" THEN "none"
                          ELSE backup_arguments.mode
    /\ wpc' = "run"
    /\ UNCHANGED <<backup_arguments, backups_dir, backups_before>>
    /\ UNCHANGED ingest_vars

\* lines 55-69: the export writes the primary backup of the configured mode,
\* or nothing when it fails
run_WebGISDR ==
    /\ wpc = "run"
    /\ \/ UNCHANGED backups_dir
       \/ /\ properties_mode # "none"
          /\ \E st \in Stamps :
                /\ BackupName(st, properties_mode) \notin backups_dir
                /\ backups_dir' = backups_dir \cup {BackupName(st, properties_mode)}
    /\ wpc' = "done"
    /\ UNCHANGED <<backup_arguments, backups_before, properties_mode>>
    /\ UNCHANGED ingest_vars

NextWrapper ==
    \/ prune_copies
    \/ set_WebGISDR
    \/ run_WebGISDR

SpecWrapper == InitWrapper /\ [][NextWrapper]_vars

\* ===================================================================
\* Properties
\* ===================================================================
Planned == pc \in {"loop", "query", "crash_get", "replace", "crash_convert",
                   "replace_list", "replace_create", "replace_append",
                   "crash_replace", "done"}

RECURSIVE Flatten(_)
Flatten(ss) == IF ss = <<>> THEN <<>> ELSE Head(ss) \o Flatten(Tail(ss))

First(chunk) == chunk[1]
Last(chunk) == chunk[Len(chunk)]

\* identifiers of manifest m selected by the range query of chunk c
Selected(m, c) == { x \in Range(m) : First(c) <= x /\ x <= Last(c) }

ExactPartition(m, gs) ==
    /\ Flatten(gs) = m
    /\ \A x \in Range(m) :
          Cardinality({ i \in 1..Len(gs) : x \in Range(gs[i]) }) = 1
    /\ \A i \in 1..Len(gs) :
          /\ gs[i] # <<>>
          /\ First(gs[i]) <= Last(gs[i])
          /\ Selected(m, gs[i]) = Range(gs[i])
    /\ \A i, j \in 1..Len(gs) : i < j => Last(gs[i]) < First(gs[j])
    /\ \A x \in Range(m) :
          Cardinality({ i \in 1..Len(gs) : x \in Selected(m, gs[i]) }) = 1

\* C1: for every non-empty strictly increasing manifest and page size >= 1
\* the chunks of IterableChunk are consecutive slices that partition the
\* manifest, and their [minID, maxID] ranges are disjoint, ascending and
\* together select every identifier exactly once; [5,8,9,12,40,41] with
\* page size 3 gives (5,9) and (12,41).
C1_ChunksPartitionManifest ==
    /\ (Planned /\ objectID_Manifest # <<>>) =>
           ExactPartition(objectID_Manifest, objectID_Groups)
    /\ (pc = "plan") =>
           LET gs == IterableChunk(3, <<5, 8, 9, 12, 40, 41>>)
           IN  /\ Len(gs) = 2
               /\ <<First(gs[1]), Last(gs[1])>> = <<5, 9>>
               /\ <<First(gs[2]), Last(gs[2])>> = <<12, 41>>

C1_Witness ==
    /\ Planned
    /\ objectID_Manifest = <<0, 2, 3>>
    /\ record_extraction_hardcode = 2
    /\ objectID_Groups = << <<0, 2>>, <<3>> >>

CeilDiv(n, p) == (n + p - 1) \div p

ChunkCountExact(m, p, gs, reported) ==
    /\ Len(gs) = CeilDiv(Len(m), p)
    /\ reported = Len(gs)
    /\ \A i \in 1..Len(gs) :
          /\ Len(gs[i]) >= 1
          /\ (i < Len(gs)) => Len(gs[i]) = p
    /\ (m = <<>>) => (gs = <<>>)

\* C2: a manifest of length n >= 0 with page size p >= 1 gives exactly
\* ceil(n/p) chunks, none empty, all but possibly the last of size p; an
\* empty manifest gives none, 60 identifiers at page size 30 give 2, and
\* the reported total_iterations equals the number of chunks returned.
C2_ChunkCountIsCeiling ==
    /\ Planned =>
           ChunkCountExact(objectID_Manifest, record_extraction_hardcode,
                           objectID_Groups, total_iterations)
    /\ (pc = "plan") =>
           LET m60 == [i \in 1..60 |-> i]
           IN  /\ Len(IterableChunk(30, m60)) = 2
               /\ TotalIterations(30, m60) = 2

C2_Witness ==
    /\ Planned
    /\ record_extraction_hardcode = 2
    /\ Len(objectID_Manifest) = 4
    /\ Len(objectID_Groups) = 2
    /\ total_iterations = 2

\* ------------------------------------------------------------ retry claims
IsGet(e) == e.op = "get"
IsBackoff(e) == e.op = "backoff"
Succeeded(e) == e.ok /\ ~e.err
Gets(t) == SelectSeq(t, IsGet)
Backoffs(t) == SelectSeq(t, IsBackoff)
Written(t) == t # <<>> /\ t[Len(t)].op = "write"

\* the chunk the current trace belongs to
TraceChunk ==
    objectID_Groups[IF pc \in {"query", "crash_get"} THEN group_index
                    ELSE group_index - 1]

\* the i-th backoff delay: the first is fixed, each later one doubles
BackoffDelay(i) == sleep_timer_start * Pow2(i)

\* C3: for a chunk answered by k >= 0 failures (hard or soft) and then a
\* success, exactly k retries are issued, all with the same query; the first
\* retry waits the fixed first backoff delay, each later retry waits double
\* the previous delay, and the payload is written only after the successful
\* response ([soft, hard, success]: two retries, delays d then 2d).
C3_RetriesDoubleUntilSuccess ==
    trace # <<>> =>
        LET g == Gets(trace)
            b == Backoffs(trace)
        IN  /\ \A i \in 1..Len(g) :
                  g[i].query = <<First(TraceChunk), Last(TraceChunk)>>
            /\ \A i \in 1..(Len(g) - 1) : ~Succeeded(g[i])
            /\ \A i \in 1..Len(b) : b[i].secs = BackoffDelay(i)
            /\ \A i \in 2..Len(b) : b[i].secs = 2 * b[i - 1].secs
            /\ \A i \in 2..Len(trace) :
                  (IsGet(trace[i]) => IsBackoff(trace[i - 1]))
            /\ Written(trace) =>
                  /\ CountOp(trace, "write") = 1
                  /\ Succeeded(g[Len(g)])
                  /\ trace[Len(trace)].name = PayloadName(json_file_iterator)
                  /\ Len(b) = Len(g) - 1
                  /\ Len(b) = Cardinality({ i \in 1..Len(g) : ~Succeeded(g[i]) })

\* [soft-error, hard-failure, success]: two retries, delays 60 then 120
C3_Witness ==
    /\ Written(trace)
    /\ Len(Gets(trace)) = 3
    /\ Gets(trace)[1].ok /\ Gets(trace)[1].err
    /\ ~Gets(trace)[2].ok /\ ~Gets(trace)[2].err
    /\ Succeeded(Gets(trace)[3])
    /\ Len(Backoffs(trace)) = 2
    /\ Backoffs(trace)[1].secs = 60
    /\ Backoffs(trace)[2].secs = 120

\* C4: the standard pause is applied only after the chunk's final successful
\* response, between that success and the return: exactly once per chunk and
\* never after a response classified as hard-failed or soft-failed.
C4_PauseOnlyAfterFinalSuccess ==
    /\ \A i \in 1..Len(trace) :
          trace[i].op = "pause" =>
              /\ i > 1
              /\ IsGet(trace[i - 1])
              /\ Succeeded(trace[i - 1])
    /\ Written(trace) =>
          /\ CountOp(trace, "pause") = 1
          /\ Len(trace) >= 3
          /\ trace[Len(trace) - 1].op = "pause"
          /\ IsGet(trace[Len(trace) - 2])

\* ------------------------------------------------------------ merge claims
InReplace == pc \in {"replace", "replace_list", "replace_create",
                     "replace_append", "crash_replace", "done"}

\* C5: the replace is all-or-nothing: in every state of
\* ReplaceFinalFeatureClassWithIntermediateFeatureClasses a complete version
\* of the destination exists; the old one is removed only once the new one
\* is fully populated, and a failing create or append never leaves the
\* destination absent, empty or partially populated.
C5_ReplaceAllOrNothing ==
    (InReplace /\ dest0.exists) => (dest.exists /\ dest.full)

AllConverted ==
    /\ Range(converted) = Names(out_json_folder)
    /\ gdb.fcs = Names(out_json_folder)

\* C6: if JSONToFeatures raises for any staged payload the run aborts with
\* the destination exactly as before the run; no delete, create or append
\* touches the destination before every staged payload has been converted.
C6_ConversionFailureLeavesDestination ==
    /\ (pc = "crash_convert") => (dest = dest0 /\ ~AllConverted)
    /\ (dest # dest0) => (InReplace /\ AllConverted)
    /\ (pc \in {"replace_list", "replace_create", "replace_append", "done"})
           => AllConverted

\* the second of three payloads fails to convert, an old destination exists
C6_Witness ==
    /\ pc = "crash_convert"
    /\ Cardinality(out_json_folder) = 3
    /\ Len(converted) = 2
    /\ Cardinality(gdb.fcs) = 1
    /\ dest0 = OldDest
    /\ dest = OldDest

\* C7: a run over an empty manifest is a success downstream: conversion and
\* the destination replace complete without error, the run reaches its
\* final step, and an existing destination is not left deleted.
C7_EmptyManifestSucceeds ==
    (Planned /\ objectID_Manifest = <<>>) =>
        /\ pc \notin {"crash_convert", "crash_replace"}
        /\ dest0.exists => dest.exists

MergeStarted ==
    /\ pc \in {"loop", "replace", "crash_convert", "replace_list",
               "replace_create", "replace_append", "crash_replace", "done"}
    /\ group_index > Len(objectID_Groups)

\* C8: when the merge stage starts the Payload Store holds exactly one
\* payload per planned chunk and nothing else: it was cleared before the
\* first request, every chunk was extracted successfully and persisted
\* under a name of its own, and no payload of an earlier run remains.
C8_StoreHoldsExactlyThisRun ==
    /\ (pc # "clean") => (out_json_folder \cap StaleFiles = {})
    /\ (pc \in {"meta", "ids", "plan"}) => (out_json_folder = {})
    /\ MergeStarted =>
          /\ Len(persisted) = Len(objectID_Groups)
          /\ Cardinality(Range(persisted)) = Len(objectID_Groups)
          /\ Cardinality(out_json_folder) = Len(objectID_Groups)
          /\ Names(out_json_folder) = Range(persisted)
          /\ \A i \in 1..Len(objectID_Groups) :
                \E f \in out_json_folder :
                   /\ f.name = persisted[i]
                   /\ f.content.query = <<First(objectID_Groups[i]),
                                          Last(objectID_Groups[i])>>
                   /\ Succeeded(f.content)

C8_Witness ==
    /\ pc = "loop"
    /\ MergeStarted
    /\ Len(objectID_Groups) = 3
    /\ Cardinality(out_json_folder) = 3

\* ------------------------------------------------------------ naming claim
\* C9: each payload is persisted under a zero-padded name such that, for
\* every manifest size and page size, the lexical order of the staged
\* payload names equals the extraction order of their chunks (the order in
\* which the merge stage is to convert them).
C9_LexicalOrderIsExtractionOrder ==
    \A i, j \in 1..Len(persisted) :
        i < j => LexLess(persisted[i], persisted[j])

\* ----------------------------------------------------------- pruning claim
Pruned == wpc \in {"set", "run"}

Greater(S, f) == { g \in S : LexLess(f, g) }

\* C10: after prune_copies returns at most args.copies files ending in
\* '<mode>.webgissite' remain, they are exactly the args.copies greatest
\* such names (all of them when fewer exist), and no file of another backup
\* mode is deleted.
C10_PruneKeepsGreatestCopies ==
    Pruned =>
        LET before == Glob(backups_before, backup_arguments.mode)
            after == Glob(backups_dir, backup_arguments.mode)
        IN  /\ Cardinality(after) <= backup_arguments.copies
            /\ Cardinality(after) =
                   Min(backup_arguments.copies, Cardinality(before))
            /\ after = { f \in before :
                           Cardinality(Greater(before, f)) < backup_arguments.copies }
            /\ backups_dir \subseteq backups_before
            /\ backups_before \ before \subseteq backups_dir

\* two of three FULL backups are pruned while an INCREMENTAL one is kept
C10_Witness ==
    /\ wpc = "set"
    /\ backup_arguments = [mode |-> "FULL", copies |-> 1]
    /\ Cardinality(Glob(backups_before, "FULL")) = 3
    /\ Cardinality(Glob(backups_dir, "FULL")) = 1
    /\ Glob(backups_dir, "INCREMENTAL") # {}

\* -------------------------------------------------------------- flag claim
\* C11: the payload QueryExtractionRequest writes is the body of a response
\* that is HTTP-ok and free of the sentinel error body: response_flag is
\* True on entry to and on return from every call, so a soft failure of one
\* chunk never makes a later chunk retry or be accepted wrongly, and a
\* sentinel or non-ok body is never persisted.
C11_FlagTrueBetweenCallsOnlyGoodPersisted ==
    /\ (pc = "loop") => (response_flag = TRUE)
    /\ (pc = "query") =>
          (MustRetry(response, response_flag) <=> ~Succeeded(response))
    /\ (pc = "query" /\ Len(Gets(trace)) = 1) =>
          (response_flag = ~response.err)
    /\ (pc # "clean") =>
          \A f \in out_json_folder : f.content.ok /\ ~f.content.err
    /\ Written(trace) =>
          LET g == Gets(trace)
          IN  /\ Succeeded(g[Len(g)])
              /\ \E f \in out_json_folder :
                    /\ f.name = trace[Len(trace)].name
                    /\ f.content.query = g[Len(g)].query
                    /\ f.content.ok = g[Len(g)].ok
                    /\ f.content.err = g[Len(g)].err

\* the second chunk returns with the flag restored after a soft failure
C11_Witness ==
    /\ pc = "loop"
    /\ group_index = 3
    /\ Written(trace)
    /\ Len(Gets(trace)) = 2
    /\ Gets(trace)[1].ok /\ Gets(trace)[1].err
    /\ response_flag = TRUE
    /\ Cardinality(out_json_folder) = 2

\* ------------------------------------------------------- absorption claim
\* C12: transport failures and soft server errors on a chunk request are
\* absorbed by the retry loop and never end the run; the run reaches the
\* merge stage only once every chunk has been persisted.
C12_FailuresNeverEndTheRun ==
    /\ pc # "crash_get"
    /\ MergeStarted => (Len(persisted) = Len(objectID_Groups))

====
